---- MODULE Spec2Model ----
(***************************************************************************)
(* The trivia game session of ryuchi311/PyTGtriviagame: one QuizGame       *)
(* object of one chat, in the two bots of the repository,                  *)
(*   Pytrivia-quizapi.py       (advance as soon as everybody answered)     *)
(*   Pytriviagame/Pytrivia.py  (always wait for the 60 second timer).      *)
(* The bot runs on one asyncio event loop.  python-telegram-bot hands the  *)
(* updates to the handlers one at a time (Application.builder() keeps      *)
(* concurrent_updates off), so one handler is in flight at most, and the   *)
(* tasks made with asyncio.create_task run between the awaits of that      *)
(* handler.  Every step below is the code between two awaits.              *)
(* Times are tenths of a second.                                           *)
(***************************************************************************)
EXTENDS Integers, Sequences, FiniteSets, TLC

VARIABLES
    variant,                \* which of the two bots runs
    players,                \* QuizGame.players: user_id -> session stats
    current_question,       \* QuizGame.current_question
    question_start_time,    \* NoTime, or the time passed since the timestamp
    is_active,              \* QuizGame.is_active
    questions,              \* QuizGame.questions
    current_question_index, \* QuizGame.current_question_index
    answered_players,       \* QuizGame.answered_players
    correct_players,        \* QuizGame.correct_players
    rankings,               \* QuizGame.leaderboard_data['rankings']
    tasks,                  \* the unfinished tasks made by asyncio.create_task
    update,                 \* the handler in flight and where it stands
    notice,                 \* what the step just taken told the user, if anything
    games_started,          \* how many times start_game activated the game
    probe                   \* what a specification of one part on its own works on

vars == <<variant, players, current_question, question_start_time, is_active,
          questions, current_question_index, answered_players, correct_players,
          rankings, tasks, update, notice, games_started, probe>>

(***************************************************************************)
(* Bounds of the model.                                                    *)
(***************************************************************************)
MaxQuestions == 2
MaxGames == 1
MaxReplayGames == 2
MaxChatGames == 2
MaxChatQuestions == 1
MaxReplaced == 1
MaxRankQuestions == 2
MaxRoster == 2
MaxEntries == 11
MaxTotal == 1
MaxVersion == 2
MaxFailures == 1
MaxFetches == 2
MaxIndex == MaxQuestions + 1
MaxAge == 601
MaxProbe == 310

(***************************************************************************)
(* Values.                                                                 *)
(***************************************************************************)
None == "None"
QUIZAPI == "Pytrivia-quizapi.py"
OPENTDB == "Pytriviagame/Pytrivia.py"
Variants == {QUIZAPI, OPENTDB}
Users == {"u1", "u2"}
Keys == {"a", "b"}
EmptyDict == [u \in {} |-> None]
\* current_question = None and question_start_time = None of __init__
NoQuestion == [id |-> 0, correct_key |-> None]
NoTime == -1

\* The seconds of the code, in tenths.
SuperFast == 50
Fast == 150
Quick == 300
QuestionTime == 600
ResultDelay == 20
NextQuestionDelay == 300
PrepareDelay == 100
\* The all-time list is cut after ten entries.
TopN == 10
Retries == 3

\* The ages of a question at which the model looks at it: one in every
\* bonus class, the last of them within ResultDelay of the deadline.
SampleAges == {30, 100, 200, 580}

Min(S) == CHOOSE x \in S : \A y \in S : x <= y

NewPlayer == [points |-> 0, correct_answers |-> 0, fast_bonuses |-> 0]

DictSet(d, k, v) == [x \in DOMAIN d \cup {k} |-> IF x = k THEN v ELSE d[x]]

\* What the remote catalog returns as i-th question.  OpenTDB questions are
\* stored with the correct option under key 'a'; quizapi.io flags any key.
Question(v, i) ==
    [id |-> i,
     correct_key |-> IF v = OPENTDB THEN "a" ELSE IF i % 2 = 1 THEN "a" ELSE "b"]

FetchedQuestions(v, n) == [i \in 1..n |-> Question(v, i)]

\* The handler in flight: where it stands (pc), what it goes on with after
\* show_question (ret), the rest of its sleep (remaining), and the index of
\* the question it has just sent (message).
Idle == [handler |-> "idle", pc |-> "idle", user |-> None, correct |-> FALSE,
         ret |-> "done", remaining |-> 0, message |-> 0]

\* The step just taken turned nobody away and answered no button press.
NoNotice == "none"

(***************************************************************************)
(* calculate_speed_bonus                                                   *)
(***************************************************************************)
\* calculate_speed_bonus if it compared with < where the code has <=.
calculate_speed_bonus_strict(seconds_elapsed) ==
    IF seconds_elapsed < SuperFast THEN 3
    ELSE IF seconds_elapsed < Fast THEN 2
    ELSE IF seconds_elapsed < Quick THEN 1
    ELSE 0

calculate_speed_bonus(seconds_elapsed) ==
    IF seconds_elapsed <= SuperFast THEN 3
    ELSE IF seconds_elapsed <= Fast THEN 2
    ELSE IF seconds_elapsed <= Quick THEN 1
    ELSE 0

(***************************************************************************)
(* end_game: the fold of the session into the all-time rankings.           *)
(***************************************************************************)
Ranking(r, u) ==
    IF u \in DOMAIN r THEN r[u] ELSE [total_points |-> 0, games_played |-> 0]

\* A fold that adds the points and forgets to count the game.
UpdateLeaderboardWithoutGamesPlayed(r, p) ==
    [u \in DOMAIN r \cup DOMAIN p |->
        IF u \in DOMAIN p
        THEN [total_points |-> Ranking(r, u).total_points + p[u].points,
              games_played |-> Ranking(r, u).games_played]
        ELSE r[u]]

UpdateLeaderboard(r, p) ==
    [u \in DOMAIN r \cup DOMAIN p |->
        IF u \in DOMAIN p
        THEN [total_points |-> Ranking(r, u).total_points + p[u].points,
              games_played |-> Ranking(r, u).games_played + 1]
        ELSE r[u]]

(***************************************************************************)
(* Tasks.  A task is an auto_advance_question or a show_next_question      *)
(* coroutine; handle marks the one QuizGame.auto_advance_task refers to,   *)
(* and message is the index of the question whose message the task got     *)
(* (or, inside show_question, of the question it has just sent).           *)
(* Finished and cancelled tasks leave the sequence: the code only asks a   *)
(* task whether it is done.                                                *)
(***************************************************************************)
NewTimer(sent_message) ==
    [coro |-> "auto_advance_question", pc |-> "sleep",
     remaining |-> QuestionTime, handle |-> TRUE, message |-> sent_message]

NewShowNext(message) ==
    [coro |-> "show_next_question", pc |-> "sleep",
     remaining |-> NextQuestionDelay, handle |-> FALSE, message |-> message]

Without(ts, i) == [j \in 1..(Len(ts) - 1) |-> IF j < i THEN ts[j] ELSE ts[j + 1]]

\* auto_advance_task.cancel() when it is not done: the task gets
\* CancelledError at the await it stands at and passes.
CancelTimer(ts) == SelectSeq(ts, LAMBDA t : ~t.handle)

\* self.auto_advance_task = asyncio.create_task(self.auto_advance_question(..))
ArmTimer(ts, sent_message) ==
    Append([j \in 1..Len(ts) |-> [ts[j] EXCEPT !.handle = FALSE]],
           NewTimer(sent_message))


(***************************************************************************)
(* show_question, from its entry to its first await.  The caller has set   *)
(* current_question_index to idx.  Its result is "noq" (no questions, a    *)
(* notice and nothing else), "ended" (end_game has begun) or "shown".      *)
(***************************************************************************)
ShowQuestionOutcome(idx) ==
    IF variant = OPENTDB /\ Len(questions) = 0 THEN "noq"
    ELSE IF idx >= Len(questions) THEN "ended"
    ELSE "shown"

\* Pytrivia-quizapi.py cancels the timers on entry, Pytrivia.py only when a
\* question is going to be shown.
ShowQuestionCancels(idx) ==
    variant = QUIZAPI \/ ShowQuestionOutcome(idx) = "shown"

ShowQuestionTasks(idx, ts) ==
    IF ShowQuestionCancels(idx) THEN CancelTimer(ts) ELSE ts

\* end_game up to its await message.reply_text: Pytrivia.py has updated the
\* leaderboard by then, Pytrivia-quizapi.py does it after the await.
EndGameBegin ==
    /\ is_active' = FALSE
    /\ rankings' = IF variant = OPENTDB
                   THEN UpdateLeaderboard(rankings, players)
                   ELSE rankings

\* end_game after its await: the rest of it, then save_data.
EndGameFinish ==
    rankings' = IF variant = QUIZAPI
                THEN UpdateLeaderboard(rankings, players)
                ELSE rankings

show_question(idx) ==
    LET out == ShowQuestionOutcome(idx) IN
    /\ current_question_index' = idx
    /\ IF out = "ended"
       THEN /\ EndGameBegin
            /\ UNCHANGED <<answered_players, correct_players,
                           current_question, question_start_time>>
       ELSE IF out = "shown"
       THEN /\ answered_players' = {}
            /\ correct_players' = {}
            /\ current_question' = questions[idx + 1]
            /\ question_start_time' = 0
            /\ UNCHANGED <<is_active, rankings>>
       ELSE UNCHANGED <<answered_players, correct_players, current_question,
                        question_start_time, is_active, rankings>>

\* The awaits of show_question and end_game at which a caller stands.
AwaitAfter(idx) ==
    IF ShowQuestionOutcome(idx) = "shown" THEN "sq_reply" ELSE "eg_reply"

\* A handler calls show_question and goes on with ret when it returns.
HandlerShowQuestion(idx, ret) ==
    /\ show_question(idx)
    /\ tasks' = ShowQuestionTasks(idx, tasks)
    /\ update' = IF ShowQuestionOutcome(idx) = "noq" THEN Idle
                 ELSE [update EXCEPT !.pc = AwaitAfter(idx), !.ret = ret,
                                     !.remaining = 0, !.message = idx]
    /\ notice' = NoNotice
    /\ UNCHANGED <<variant, players, questions, games_started, probe>>

\* Task i calls show_question.  When that cancels the task itself (it is the
\* one auto_advance_task refers to), CancelledError is raised at the next
\* await, message.reply_text, and the task ends there.
TaskShowQuestion(i, idx) ==
    /\ show_question(idx)
    /\ tasks' = ShowQuestionTasks(idx,
                    IF ShowQuestionOutcome(idx) = "noq" THEN Without(tasks, i)
                    ELSE [tasks EXCEPT ![i].pc = AwaitAfter(idx),
                                       ![i].message = idx])
    /\ notice' = NoNotice
    /\ UNCHANGED <<variant, players, questions, update, games_started, probe>>


(***************************************************************************)
(* Commands and buttons.  A handler starts when no other is in flight.     *)
(***************************************************************************)
Actors == {"admin", "member"}

\* is_admin: the chat member is an administrator or the creator.
is_admin(actor) == actor = "admin"

\* A command that is turned away gets a message and changes nothing.
Rejected(text) ==
    /\ notice' = text
    /\ UNCHANGED <<variant, players, current_question, question_start_time,
                   is_active, questions, current_question_index,
                   answered_players, correct_players, rankings, tasks, update,
                   games_started, probe>>

\* A join_trivia that is open during the game in both programs.
JoinRejectionAtAnyTime(u) ==
    IF u \in DOMAIN players THEN "already_registered" ELSE "ok"

\* A join_trivia that is closed once the game is over.
JoinRejectionAfterEnd(u) ==
    IF variant = QUIZAPI /\ is_active THEN "game_in_progress"
    ELSE IF games_started >= 1 /\ ~is_active THEN "game_over"
    ELSE IF u \in DOMAIN players THEN "already_registered"
    ELSE "ok"

\* join_trivia.  Pytrivia-quizapi.py turns joins away while a game runs.
JoinRejection(u) ==
    IF variant = QUIZAPI /\ is_active THEN "game_in_progress"
    ELSE IF u \in DOMAIN players THEN "already_registered"
    ELSE "ok"

join_trivia(u) ==
    /\ update = Idle
    /\ IF JoinRejection(u) # "ok"
       THEN Rejected(JoinRejection(u))
       ELSE /\ players' = DictSet(players, u, NewPlayer)
            /\ notice' = NoNotice
            /\ UNCHANGED <<variant, current_question, question_start_time,
                           is_active, questions, current_question_index,
                           answered_players, correct_players, rankings, tasks,
                           update, games_started, probe>>

\* start_game, to its await of fetch_questions.
\* A start_game open to everybody.
StartRejectionWithoutAdminCheck(actor) ==
    IF is_active THEN "already_in_progress"
    ELSE IF Cardinality(DOMAIN players) = 0 THEN "no_players"
    ELSE "ok"

\* A start_game that does not ask whether anybody has joined.
StartRejectionWithoutPlayersCheck(actor) ==
    IF ~is_admin(actor) THEN "admins_only"
    ELSE IF is_active THEN "already_in_progress"
    ELSE "ok"

StartRejection(actor) ==
    IF ~is_admin(actor) THEN "admins_only"
    ELSE IF is_active THEN "already_in_progress"
    ELSE IF Cardinality(DOMAIN players) = 0 THEN "no_players"
    ELSE "ok"

\* The model follows the game through `games` starts.
StartGame(actor, games) ==
    /\ update = Idle
    /\ IF StartRejection(actor) # "ok"
       THEN Rejected(StartRejection(actor))
       ELSE /\ games_started < games
            /\ update' = [Idle EXCEPT !.handler = "start_game", !.pc = "fetch",
                                      !.user = actor]
            /\ notice' = NoNotice
            /\ UNCHANGED <<variant, players, current_question,
                           question_start_time, is_active, questions,
                           current_question_index, answered_players,
                           correct_players, rankings, tasks, games_started,
                           probe>>

start_game(actor) == StartGame(actor, MaxGames)

\* fetch_questions returns True with n questions stored, and start_game
\* activates the game and sleeps 10 seconds.
StartGameFetched(n) ==
    /\ update.handler = "start_game" /\ update.pc = "fetch"
    /\ questions' = FetchedQuestions(variant, n)
    /\ is_active' = TRUE
    /\ games_started' = games_started + 1
    /\ update' = [update EXCEPT !.pc = "sleep10", !.remaining = PrepareDelay]
    /\ notice' = NoNotice
    /\ UNCHANGED <<variant, players, current_question, question_start_time,
                   current_question_index, answered_players, correct_players,
                   rankings, tasks, probe>>

\* A start_game that forgets who had joined when the fetch fails.
StartGameFetchFailedDroppingPlayers ==
    /\ update.handler = "start_game" /\ update.pc = "fetch"
    /\ is_active' = FALSE
    /\ players' = EmptyDict
    /\ update' = Idle
    /\ notice' = "fetch_failed"
    /\ UNCHANGED <<variant, current_question, question_start_time, questions,
                   current_question_index, answered_players, correct_players,
                   rankings, tasks, games_started, probe>>

\* fetch_questions returns False.
StartGameFetchFailed ==
    /\ update.handler = "start_game" /\ update.pc = "fetch"
    /\ is_active' = FALSE
    /\ update' = Idle
    /\ notice' = "fetch_failed"
    /\ UNCHANGED <<variant, players, current_question, question_start_time,
                   questions, current_question_index, answered_players,
                   correct_players, rankings, tasks, games_started, probe>>

\* start_game after its sleep: show_question.
StartGameShow ==
    /\ update.handler = "start_game" /\ update.pc = "sleep10"
    /\ update.remaining = 0
    /\ HandlerShowQuestion(current_question_index, "done")

\* next_game, to its await of the summary message.
NextRejection(actor) ==
    IF ~is_admin(actor) THEN "admins_only"
    ELSE IF ~is_active THEN "no_active_game"
    ELSE "ok"

next_game(actor) ==
    /\ update = Idle
    /\ IF NextRejection(actor) # "ok"
       THEN Rejected(NextRejection(actor))
       ELSE /\ current_question_index < MaxIndex
            /\ update' = [Idle EXCEPT !.handler = "next_game",
                                      !.pc = "summary", !.user = actor]
            /\ notice' = NoNotice
            /\ UNCHANGED <<variant, players, current_question,
                           question_start_time, is_active, questions,
                           current_question_index, answered_players,
                           correct_players, rankings, tasks, games_started,
                           probe>>

\* next_game after the summary: the increment and show_question.
NextGameAdvance ==
    /\ update.handler = "next_game" /\ update.pc = "summary"
    /\ HandlerShowQuestion(current_question_index + 1, "done")


(***************************************************************************)
(* Time.  asyncio.sleep ends when its time is over, and a sleeper that is  *)
(* due runs before time passes again.  Time passes to the next sleeper     *)
(* that is due (Tick), or to the moment a button press is handled, which   *)
(* is when handle_answer reads datetime.now().                             *)
(***************************************************************************)
HandlerSleeps == update.pc \in {"sleep1", "sleep2", "sleep10"}

Sleepers ==
    {tasks[i].remaining : i \in {j \in 1..Len(tasks) : tasks[j].pc = "sleep"}}
    \cup (IF HandlerSleeps THEN {update.remaining} ELSE {})

Later(t, d) == IF t + d > MaxAge THEN MaxAge ELSE t + d

\* The tasks after d more tenths of a second.
Elapse(ts, d) ==
    [i \in 1..Len(ts) |->
        IF ts[i].pc = "sleep" THEN [ts[i] EXCEPT !.remaining = @ - d] ELSE ts[i]]

Tick ==
    /\ Sleepers # {}
    /\ 0 \notin Sleepers
    /\ LET d == Min(Sleepers) IN
       /\ question_start_time' = IF question_start_time = NoTime THEN NoTime
                                 ELSE Later(question_start_time, d)
       /\ tasks' = Elapse(tasks, d)
       /\ update' = IF HandlerSleeps
                    THEN [update EXCEPT !.remaining = @ - d]
                    ELSE update
    /\ notice' = NoNotice
    /\ UNCHANGED <<variant, players, current_question, is_active, questions,
                   current_question_index, answered_players, correct_players,
                   rankings, games_started, probe>>

\* How much later a press on a button of the current question can be
\* handled: at once, or when the question has one of the sampled ages,
\* as long as no sleeper is due before.
ArrivalDelays ==
    {0} \cup {a - question_start_time :
                a \in {b \in SampleAges :
                         /\ question_start_time # NoTime
                         /\ b > question_start_time
                         /\ \A r \in Sleepers : b - question_start_time <= r}}

(***************************************************************************)
(* handle_answer                                                           *)
(***************************************************************************)
\* handle_answer if it did not look at answered_players.
AnswerRejectionWithoutAttemptedCheck(u) ==
    IF ~is_active THEN "no_active_game"
    ELSE IF u \notin DOMAIN players THEN "must_join"
    ELSE IF variant = QUIZAPI /\ u \in correct_players THEN "already_correct"
    ELSE "ok"

\* handle_answer if it did not ask whether a game is active.
AnswerRejectionWithoutActiveCheck(u) ==
    IF u \notin DOMAIN players THEN "must_join"
    ELSE IF variant = QUIZAPI /\ u \in correct_players THEN "already_correct"
    ELSE IF u \in answered_players THEN "already_attempted"
    ELSE "ok"

AnswerRejection(u) ==
    IF ~is_active THEN "no_active_game"
    ELSE IF u \notin DOMAIN players THEN "must_join"
    ELSE IF variant = QUIZAPI /\ u \in correct_players THEN "already_correct"
    ELSE IF u \in answered_players THEN "already_attempted"
    ELSE "ok"

\* Scoring if the speed bonus counted whenever the answer is correct.
ScoredCountingEveryBonus(stats, age) ==
    [points |-> stats.points + 1 + calculate_speed_bonus(age),
     correct_answers |-> stats.correct_answers + 1,
     fast_bonuses |-> stats.fast_bonuses + 1]

\* The stats of a player after a correct answer given when the question was
\* shown `age` ago.
Scored(stats, age) ==
    LET bonus == calculate_speed_bonus(age) IN
    [points |-> stats.points + 1 + bonus,
     correct_answers |-> stats.correct_answers + 1,
     fast_bonuses |-> stats.fast_bonuses + (IF bonus > 0 THEN 1 ELSE 0)]

\* game.current_question['correct_answers'][f"{answer_key}_correct"] == "true"
IsCorrect(question, answer_key) == question.correct_key = answer_key

\* A handle_answer that looks in both programs whether everybody has
\* answered.
AnswerGoesOnInBoth == TRUE

\* Pytrivia-quizapi.py goes on after query.answer and looks whether
\* everybody has answered; Pytrivia.py is through ("Don't auto-advance, let
\* the timer complete").
AnswerGoesOn == variant = QUIZAPI

\* handle_answer from its entry to its first await after the checks.  With
\* current_question None the subscript raises TypeError after the player was
\* marked as attempted, and the handler ends.
handle_answer(u, answer_key, delay) ==
    /\ update = Idle
    /\ delay \in ArrivalDelays
    /\ IF AnswerRejection(u) # "ok"
       THEN /\ delay = 0
            /\ notice' = AnswerRejection(u)
            /\ UNCHANGED <<variant, players, current_question,
                           question_start_time, is_active, questions,
                           current_question_index, answered_players,
                           correct_players, rankings, tasks, update,
                           games_started, probe>>
       ELSE /\ answered_players' = answered_players \cup {u}
            /\ IF current_question = NoQuestion
               THEN /\ notice' = NoNotice
                    /\ UNCHANGED <<correct_players, players, update>>
               ELSE LET correct == IsCorrect(current_question, answer_key) IN
                    /\ correct_players' = IF correct
                                          THEN correct_players \cup {u}
                                          ELSE correct_players
                    /\ players' = IF correct
                                  THEN [players EXCEPT
                                          ![u] = Scored(@, question_start_time
                                                           + delay)]
                                  ELSE players
                    /\ notice' = IF correct THEN "correct" ELSE "wrong"
                    /\ update' = IF AnswerGoesOn
                                 THEN [Idle EXCEPT !.handler = "handle_answer",
                                                   !.pc = "answered",
                                                   !.user = u,
                                                   !.correct = correct]
                                 ELSE Idle
            /\ question_start_time' = IF question_start_time = NoTime
                                      THEN NoTime
                                      ELSE question_start_time + delay
            /\ tasks' = Elapse(tasks, delay)
            /\ UNCHANGED <<variant, current_question, is_active, questions,
                           current_question_index, rankings, games_started,
                           probe>>

\* Pytrivia-quizapi.py, lines 562 to 569: save_data, then whether everybody
\* has attempted or everybody is correct; if so the handler sleeps 2 seconds.
\* The condition of line 566 if it only asked whether everybody is correct.
EverybodyCorrect ==
    Cardinality(correct_players) = Cardinality(DOMAIN players)

EverybodyDone ==
    \/ DOMAIN players \ answered_players = {}
    \/ Cardinality(correct_players) = Cardinality(DOMAIN players)

AnswerTail ==
    IF EverybodyDone
    THEN [update EXCEPT !.pc = "sleep2", !.ret = "done",
                        !.remaining = ResultDelay, !.message = 0]
    ELSE Idle

\* Pytrivia-quizapi.py after query.answer: a correct answer that made
\* everybody correct cancels the timer and sleeps 2 seconds (lines 552-555).
AnswerReplied ==
    /\ update.handler = "handle_answer" /\ update.pc = "answered"
    /\ IF update.correct
          /\ Cardinality(correct_players) = Cardinality(DOMAIN players)
       THEN /\ tasks' = CancelTimer(tasks)
            /\ update' = [update EXCEPT !.pc = "sleep1",
                                        !.remaining = ResultDelay]
       ELSE /\ update' = AnswerTail
            /\ UNCHANGED tasks
    /\ notice' = NoNotice
    /\ UNCHANGED <<variant, players, current_question, question_start_time,
                   is_active, questions, current_question_index,
                   answered_players, correct_players, rankings, games_started,
                   probe>>

\* Lines 556-558: after the sleep, the increment and show_question; the
\* handler then goes on at line 562.
AnswerAdvanceAllCorrect ==
    /\ update.handler = "handle_answer" /\ update.pc = "sleep1"
    /\ update.remaining = 0
    /\ HandlerShowQuestion(current_question_index + 1, "tail")

\* Lines 570-571.
AnswerAdvanceAllAttempted ==
    /\ update.handler = "handle_answer" /\ update.pc = "sleep2"
    /\ update.remaining = 0
    /\ HandlerShowQuestion(current_question_index + 1, "done")

(***************************************************************************)
(* reset_scores and force_end_game, of Pytriviagame/Pytrivia.py only.      *)
(***************************************************************************)
\* A reset_scores that empties the players and keeps the rankings.
reset_scores_keeping_rankings(actor) ==
    /\ update = Idle
    /\ variant = OPENTDB
    /\ players' = EmptyDict
    /\ notice' = "scores_reset"
    /\ UNCHANGED <<variant, current_question, question_start_time, is_active,
                   questions, current_question_index, answered_players,
                   correct_players, rankings, tasks, update, games_started,
                   probe>>

reset_scores(actor) ==
    /\ update = Idle
    /\ variant = OPENTDB
    /\ players' = EmptyDict
    /\ rankings' = EmptyDict
    /\ notice' = "scores_reset"
    /\ UNCHANGED <<variant, current_question, question_start_time, is_active,
                   questions, current_question_index, answered_players,
                   correct_players, tasks, update, games_started, probe>>

ForceEndRejection(actor) ==
    IF ~is_admin(actor) THEN "admins_only"
    ELSE IF ~is_active THEN "no_active_game_to_end"
    ELSE "ok"

\* force_end_game to its first await: the timers are cancelled.
force_end_game(actor) ==
    /\ update = Idle
    /\ variant = OPENTDB
    /\ IF ForceEndRejection(actor) # "ok"
       THEN Rejected(ForceEndRejection(actor))
       ELSE /\ tasks' = CancelTimer(tasks)
            /\ update' = [Idle EXCEPT !.handler = "force_end_game",
                                      !.pc = "stats", !.user = actor]
            /\ notice' = NoNotice
            /\ UNCHANGED <<variant, players, current_question,
                           question_start_time, is_active, questions,
                           current_question_index, answered_players,
                           correct_players, rankings, games_started, probe>>

\* force_end_game after its messages: end_game, to its await.
ForceEndEndGame ==
    /\ update.handler = "force_end_game" /\ update.pc = "stats"
    /\ EndGameBegin
    /\ update' = [update EXCEPT !.pc = "eg_reply", !.ret = "clear"]
    /\ notice' = NoNotice
    /\ UNCHANGED <<variant, players, current_question, question_start_time,
                   questions, current_question_index, answered_players,
                   correct_players, tasks, games_started, probe>>

(***************************************************************************)
(* A handler comes back from the await of show_question or of end_game.    *)
(***************************************************************************)
\* show_question after the question was sent: the new timer; then the caller.
HandlerShown ==
    /\ update.pc = "sq_reply"
    /\ tasks' = ArmTimer(tasks, update.message)
    /\ update' = IF update.ret = "tail" THEN AnswerTail ELSE Idle
    /\ notice' = NoNotice
    /\ UNCHANGED <<variant, players, current_question, question_start_time,
                   is_active, questions, current_question_index,
                   answered_players, correct_players, rankings, games_started,
                   probe>>

\* end_game after the results were sent; then the caller: handle_answer goes
\* on at line 562, force_end_game clears the game state.
HandlerEnded ==
    /\ update.pc = "eg_reply"
    /\ EndGameFinish
    /\ IF update.ret = "clear"
       THEN /\ is_active' = FALSE
            /\ current_question' = NoQuestion
            /\ current_question_index' = 0
            /\ questions' = <<>>
            /\ answered_players' = {}
            /\ correct_players' = {}
            /\ update' = Idle
       ELSE /\ update' = IF update.ret = "tail" THEN AnswerTail ELSE Idle
            /\ UNCHANGED <<is_active, current_question, current_question_index,
                           questions, answered_players, correct_players>>
    /\ notice' = NoNotice
    /\ UNCHANGED <<variant, players, question_start_time, tasks,
                   games_started, probe>>


(***************************************************************************)
(* auto_advance_question and show_next_question                            *)
(***************************************************************************)
IsTimer(i) == tasks[i].coro = "auto_advance_question"

TaskLeaves(i) ==
    /\ tasks' = Without(tasks, i)
    /\ notice' = NoNotice
    /\ UNCHANGED <<variant, players, current_question, question_start_time,
                   is_active, questions, current_question_index,
                   answered_players, correct_players, rankings, update,
                   games_started, probe>>

\* The 60 seconds are over.  The task ends when the game is not active, and
\* in Pytrivia.py with IndexError when there is no current question to sum up;
\* otherwise it awaits its message (and the explanation in Pytrivia.py).
TimerFires(i) ==
    /\ IsTimer(i) /\ tasks[i].pc = "sleep" /\ tasks[i].remaining = 0
    /\ IF is_active
          /\ ~(variant = OPENTDB /\ current_question_index >= Len(questions))
       THEN /\ tasks' = [tasks EXCEPT ![i].pc = "reply"]
            /\ notice' = NoNotice
            /\ UNCHANGED <<variant, players, current_question,
                           question_start_time, is_active, questions,
                           current_question_index, answered_players,
                           correct_players, rankings, update, games_started,
                           probe>>
       ELSE TaskLeaves(i)

\* Pytrivia-quizapi.py: the increment and show_question inside the task.
TimerAdvance(i) ==
    /\ variant = QUIZAPI
    /\ IsTimer(i) /\ tasks[i].pc = "reply"
    /\ TaskShowQuestion(i, current_question_index + 1)

\* Pytrivia.py: the summary was sent; the task leaves show_next_question
\* behind, which nothing refers to.
TimerSchedulesNext(i) ==
    /\ variant = OPENTDB
    /\ IsTimer(i) /\ tasks[i].pc = "reply"
    /\ tasks' = Append(Without(tasks, i), NewShowNext(tasks[i].message))
    /\ notice' = NoNotice
    /\ UNCHANGED <<variant, players, current_question, question_start_time,
                   is_active, questions, current_question_index,
                   answered_players, correct_players, rankings, update,
                   games_started, probe>>

\* show_next_question after its 30 seconds.
ShowNextFires(i) ==
    /\ tasks[i].coro = "show_next_question"
    /\ tasks[i].pc = "sleep" /\ tasks[i].remaining = 0
    /\ IF is_active
       THEN TaskShowQuestion(i, current_question_index + 1)
       ELSE TaskLeaves(i)

\* show_question inside a task, after the question was sent: the new timer.
TaskShown(i) ==
    /\ tasks[i].pc = "sq_reply"
    /\ tasks' = ArmTimer(Without(tasks, i), tasks[i].message)
    /\ notice' = NoNotice
    /\ UNCHANGED <<variant, players, current_question, question_start_time,
                   is_active, questions, current_question_index,
                   answered_players, correct_players, rankings, update,
                   games_started, probe>>

\* end_game inside a task, after its message.
TaskEnded(i) ==
    /\ tasks[i].pc = "eg_reply"
    /\ EndGameFinish
    /\ tasks' = Without(tasks, i)
    /\ notice' = NoNotice
    /\ UNCHANGED <<variant, players, current_question, question_start_time,
                   is_active, questions, current_question_index,
                   answered_players, correct_players, update, games_started,
                   probe>>

(***************************************************************************)
(* The game after start_trivia made it: QuizGame.__init__, is_active False.*)
(***************************************************************************)
NoProbe == [t1 |-> 0, t2 |-> 0, computed |-> FALSE, bonus1 |-> 0, bonus2 |-> 0]

Init ==
    /\ variant \in Variants
    /\ players = EmptyDict
    /\ current_question = NoQuestion
    /\ question_start_time = NoTime
    /\ is_active = FALSE
    /\ questions = <<>>
    /\ current_question_index = 0
    /\ answered_players = {}
    /\ correct_players = {}
    /\ rankings = EmptyDict
    /\ tasks = <<>>
    /\ update = Idle
    /\ notice = NoNotice
    /\ games_started = 0
    /\ probe = NoProbe

Next ==
    \/ \E u \in Users : join_trivia(u)
    \/ \E actor \in Actors : start_game(actor)
    \/ \E n \in 0..MaxQuestions : StartGameFetched(n)
    \/ StartGameFetchFailed
    \/ StartGameShow
    \/ \E actor \in Actors : next_game(actor)
    \/ NextGameAdvance
    \/ \E u \in Users, k \in Keys, d \in ArrivalDelays : handle_answer(u, k, d)
    \/ AnswerReplied
    \/ AnswerAdvanceAllCorrect
    \/ AnswerAdvanceAllAttempted
    \/ \E actor \in Actors : reset_scores(actor)
    \/ \E actor \in Actors : force_end_game(actor)
    \/ ForceEndEndGame
    \/ HandlerShown
    \/ HandlerEnded
    \/ \E i \in 1..Len(tasks) : TimerFires(i)
    \/ \E i \in 1..Len(tasks) : TimerAdvance(i)
    \/ \E i \in 1..Len(tasks) : TimerSchedulesNext(i)
    \/ \E i \in 1..Len(tasks) : ShowNextFires(i)
    \/ \E i \in 1..Len(tasks) : TaskShown(i)
    \/ \E i \in 1..Len(tasks) : TaskEnded(i)
    \/ Tick

Spec == Init /\ [][Next]_vars

(***************************************************************************)
(* A game nobody attends to: players join, an administrator starts the     *)
(* game, and from then on only the timers act.  asyncio runs every task    *)
(* and handler that is ready, and time goes on.                            *)
(***************************************************************************)
TaskStep ==
    \E i \in 1..Len(tasks) :
        \/ TimerFires(i)
        \/ TimerAdvance(i)
        \/ TimerSchedulesNext(i)
        \/ ShowNextFires(i)
        \/ TaskShown(i)
        \/ TaskEnded(i)

HandlerStep == StartGameShow \/ HandlerShown \/ HandlerEnded

NextUnattended ==
    \/ ~is_active /\ \E u \in Users : join_trivia(u)
    \/ ~is_active /\ \E actor \in Actors : start_game(actor)
    \/ \E n \in 0..MaxQuestions : StartGameFetched(n)
    \/ StartGameFetchFailed
    \/ HandlerStep
    \/ TaskStep
    \/ Tick

SpecUnattended ==
    /\ Init
    /\ [][NextUnattended]_vars
    /\ WF_vars(HandlerStep)
    /\ WF_vars(TaskStep)
    /\ WF_vars(Tick)

(***************************************************************************)
(* The game object used again after its game is over: the commands and the *)
(* timers without the answers, through MaxReplayGames starts.              *)
(***************************************************************************)
NextReplay ==
    \/ \E u \in Users : join_trivia(u)
    \/ \E actor \in Actors : StartGame(actor, MaxReplayGames)
    \/ \E n \in 0..MaxQuestions : StartGameFetched(n)
    \/ StartGameFetchFailed
    \/ \E actor \in Actors : next_game(actor)
    \/ NextGameAdvance
    \/ \E actor \in Actors : force_end_game(actor)
    \/ ForceEndEndGame
    \/ HandlerStep
    \/ TaskStep
    \/ Tick

SpecReplay == Init /\ [][NextReplay]_vars

\* The same with the answers of one player, given as soon as they can be.
NextReplayAnswered ==
    \/ join_trivia("u1")
    \/ \E actor \in Actors : StartGame(actor, MaxReplayGames)
    \/ \E n \in 0..MaxQuestions : StartGameFetched(n)
    \/ StartGameFetchFailed
    \/ \E k \in Keys : handle_answer("u1", k, 0)
    \/ AnswerReplied
    \/ AnswerAdvanceAllCorrect
    \/ AnswerAdvanceAllAttempted
    \/ HandlerStep
    \/ TaskStep
    \/ Tick

SpecReplayAnswered == Init /\ [][NextReplayAnswered]_vars

(***************************************************************************)
(* What the specifications of one part on its own share: the game object   *)
(* stays as __init__ made it, and the part works on probe.                 *)
(***************************************************************************)
GameAsMade ==
    /\ players = EmptyDict
    /\ current_question = NoQuestion
    /\ question_start_time = NoTime
    /\ is_active = FALSE
    /\ questions = <<>>
    /\ current_question_index = 0
    /\ answered_players = {}
    /\ correct_players = {}
    /\ rankings = EmptyDict
    /\ tasks = <<>>
    /\ update = Idle
    /\ notice = NoNotice
    /\ games_started = 0

GameUntouched ==
    UNCHANGED <<variant, players, current_question, question_start_time,
                is_active, questions, current_question_index,
                answered_players, correct_players, rankings, tasks, update,
                notice, games_started>>

(***************************************************************************)
(* Several chats.  games maps chat_id to the QuizGame of the chat, every   *)
(* handler takes games[chat_id] and works on that object, and a timer task *)
(* works on the object that made it.  All QuizGame objects read and write  *)
(* the same two files of Pydata; file is the rankings in leaderboard.json. *)
(* Here every handler is one step and points are one per correct answer.   *)
(* chat is the chat of the step just taken, started counts the games.      *)
(***************************************************************************)
Chats == {"c1", "c2"}
NoTask == -1

\* QuizGame(chat_id): __init__ with load_data.
NewGame(file) ==
    [players |-> EmptyDict, is_active |-> FALSE, questions |-> 0,
     current_question_index |-> 0, answered_players |-> {},
     correct_players |-> {}, auto_advance_task |-> NoTask, rankings |-> file]

InitChats ==
    /\ variant \in Variants
    /\ GameAsMade
    /\ probe = [games |-> EmptyDict, file |-> EmptyDict, chat |-> None,
                started |-> 0, replaced |-> <<>>]

\* What a handler or task of chat c makes of the game g of that chat.
ChatStep(c, g, file) ==
    /\ probe' = [probe EXCEPT !.games = DictSet(probe.games, c, g),
                              !.file = file, !.chat = c]
    /\ GameUntouched

\* The game objects that games no longer refers to and whose timer task is
\* still asleep: the task holds the object.  What start_trivia(c) adds.
Replacing(c) ==
    IF c \in DOMAIN probe.games /\ probe.games[c].auto_advance_task # NoTask
    THEN <<[chat |-> c, game |-> probe.games[c]]>>
    ELSE <<>>

\* A start_trivia that forgets the games of the other chats.
start_trivia_alone(c) ==
    /\ Len(probe.replaced \o Replacing(c)) <= MaxReplaced
    /\ probe' = [probe EXCEPT !.games = DictSet(EmptyDict, c, NewGame(probe.file)),
                              !.chat = c,
                              !.replaced = probe.replaced \o Replacing(c)]
    /\ GameUntouched

\* start_trivia: games[chat_id] = QuizGame(chat_id).  The game that was
\* there is not asked anything and its timer is not cancelled.
start_trivia(c) ==
    /\ Len(probe.replaced \o Replacing(c)) <= MaxReplaced
    /\ probe' = [probe EXCEPT !.games = DictSet(probe.games, c, NewGame(probe.file)),
                              !.chat = c,
                              !.replaced = probe.replaced \o Replacing(c)]
    /\ GameUntouched

\* join_trivia, with its save_data: the file is what this game holds.
ChatJoin(c, u) ==
    /\ c \in DOMAIN probe.games
    /\ LET g == probe.games[c] IN
       /\ ~(variant = QUIZAPI /\ g.is_active)
       /\ u \notin DOMAIN g.players
       /\ ChatStep(c, [g EXCEPT !.players = DictSet(g.players, u, 0)],
                   g.rankings)

\* show_question of game g at its index: the question and its timer, or
\* end_game with the fold and save_data.
ChatShow(g) ==
    IF g.current_question_index >= g.questions
    THEN [g EXCEPT !.is_active = FALSE,
                   !.rankings = [u \in DOMAIN g.rankings \cup DOMAIN g.players |->
                                   (IF u \in DOMAIN g.rankings
                                    THEN g.rankings[u] ELSE 0)
                                   + (IF u \in DOMAIN g.players
                                      THEN g.players[u] ELSE 0)]]
    ELSE [g EXCEPT !.answered_players = {}, !.correct_players = {},
                   !.auto_advance_task = g.current_question_index]

ChatShown(c, g) ==
    ChatStep(c, ChatShow(g),
             IF ChatShow(g).is_active THEN probe.file ELSE ChatShow(g).rankings)

ChatStartGame(c, n) ==
    /\ c \in DOMAIN probe.games
    /\ probe.started < MaxChatGames
    /\ LET g == probe.games[c] IN
       /\ ~g.is_active
       /\ DOMAIN g.players # {}
       /\ probe' = [probe EXCEPT
                      !.games = DictSet(probe.games, c,
                                  ChatShow([g EXCEPT !.is_active = TRUE,
                                                     !.questions = n])),
                      !.file = IF g.current_question_index >= n
                               THEN ChatShow([g EXCEPT !.questions = n]).rankings
                               ELSE probe.file,
                      !.chat = c,
                      !.started = probe.started + 1]
       /\ GameUntouched

\* handle_answer taking a press, with its save_data.
ChatAnswer(c, u, correct) ==
    /\ c \in DOMAIN probe.games
    /\ LET g == probe.games[c] IN
       /\ g.is_active
       /\ u \in DOMAIN g.players
       /\ u \notin g.answered_players
       /\ ChatStep(c, [g EXCEPT
                         !.answered_players = g.answered_players \cup {u},
                         !.correct_players = IF correct
                                             THEN g.correct_players \cup {u}
                                             ELSE g.correct_players,
                         !.players = IF correct
                                     THEN [g.players EXCEPT ![u] = @ + 1]
                                     ELSE g.players],
                   g.rankings)

\* The timer of the question shown, or next_game: the next question.
ChatAdvance(c) ==
    /\ c \in DOMAIN probe.games
    /\ LET g == probe.games[c] IN
       /\ g.is_active
       /\ ChatShown(c, [g EXCEPT !.current_question_index = @ + 1,
                                 !.auto_advance_task = NoTask])

\* force_end_game of Pytrivia.py: end_game, then the game state is cleared.
ChatForceEnd(c) ==
    /\ variant = OPENTDB
    /\ c \in DOMAIN probe.games
    /\ LET g == probe.games[c]
           e == ChatShow([g EXCEPT !.current_question_index = g.questions,
                                   !.auto_advance_task = NoTask])
       IN
       /\ g.is_active
       /\ ChatStep(c, [e EXCEPT !.current_question_index = 0,
                                !.questions = 0,
                                !.answered_players = {},
                                !.correct_players = {}],
                   e.rankings)

\* The timer of a game that was replaced: is_active of that object is still
\* True, so the task goes on to the next question of it, or to end_game
\* with the fold and save_data.
ChatReplacedAdvance(i) ==
    /\ i \in 1..Len(probe.replaced)
    /\ LET g == probe.replaced[i].game
           shown == ChatShow([g EXCEPT !.current_question_index = @ + 1,
                                       !.auto_advance_task = NoTask])
       IN
       /\ probe' = [probe EXCEPT
                      !.replaced = IF shown.is_active
                                   THEN [probe.replaced EXCEPT ![i].game = shown]
                                   ELSE Without(probe.replaced, i),
                      !.file = IF shown.is_active THEN probe.file
                               ELSE shown.rankings,
                      !.chat = probe.replaced[i].chat]
       /\ GameUntouched

NextChats ==
    \/ \E c \in Chats : start_trivia(c)
    \/ \E i \in 1..MaxReplaced : ChatReplacedAdvance(i)
    \/ \E c \in Chats, u \in Users : ChatJoin(c, u)
    \/ \E c \in Chats, n \in 1..MaxChatQuestions : ChatStartGame(c, n)
    \/ \E c \in Chats, u \in Users, correct \in BOOLEAN : ChatAnswer(c, u, correct)
    \/ \E c \in Chats : ChatAdvance(c)
    \/ \E c \in Chats : ChatForceEnd(c)

SpecChats == InitChats /\ [][NextChats]_vars

(***************************************************************************)
(* The current game's ranking.  A dict keeps its items in the order they   *)
(* were put in, so players.items() is the players in join order, here a    *)
(* sequence of their stats.  sorted() is stable, with reverse=True too:    *)
(* items with equal keys stay in the order they came in.                   *)
(***************************************************************************)
\* Tuples of numbers compared as Python compares them, greater first.
TupleGreater(a, b) ==
    \E k \in 1..Len(a) :
       /\ a[k] > b[k]
       /\ \A h \in 1..(k - 1) : a[h] = b[h]

\* sorted(s, key=..., reverse=True), keys the key of every item of s: the
\* item with the greater key comes first, and items with equal keys keep
\* their order.
Sorted(s, keys) ==
    LET Precedes(i, j) ==
            \/ TupleGreater(keys[i], keys[j])
            \/ ~TupleGreater(keys[j], keys[i]) /\ i < j
        Place(i) == 1 + Cardinality({j \in 1..Len(s) : Precedes(j, i)})
    IN [k \in 1..Len(s) |-> s[CHOOSE i \in 1..Len(s) : Place(i) = k]]

\* The keys of the three sorts of the current game.
KeyPointsBonusesCorrect(x) == <<x.points, x.fast_bonuses, x.correct_answers>>
KeyPointsBonuses(x) == <<x.points, x.fast_bonuses>>
KeyPointsCorrect(x) == <<x.points, x.correct_answers>>

ByPointsBonusesCorrect(items) ==
    [i \in 1..Len(items) |-> KeyPointsBonusesCorrect(items[i])]
ByPointsBonuses(items) == [i \in 1..Len(items) |-> KeyPointsBonuses(items[i])]
ByPointsCorrect(items) == [i \in 1..Len(items) |-> KeyPointsCorrect(items[i])]

\* show_leaderboard, current game: Pytrivia.py sorts by points, fast_bonuses
\* and correct_answers, Pytrivia-quizapi.py by points and fast_bonuses.
sorted_current(v, items) ==
    IF v = OPENTDB THEN Sorted(items, ByPointsBonusesCorrect(items))
    ELSE Sorted(items, ByPointsBonuses(items))

\* end_game: sorted by points and correct_answers.  Pytrivia-quizapi.py
\* sends this list as the final results; Pytrivia.py computes it and sends
\* the all-time list only.
sorted_players(items) == Sorted(items, ByPointsCorrect(items))

\* The stats a player can have after q questions: every correct answer one
\* point and up to three bonus points, fast_bonuses the answers with a bonus.
StatsAfter(q) ==
    {x \in [points : 0..(4 * q), correct_answers : 0..q, fast_bonuses : 0..q] :
        /\ x.fast_bonuses <= x.correct_answers
        /\ x.points >= x.correct_answers + x.fast_bonuses
        /\ x.points <= x.correct_answers + 3 * x.fast_bonuses}

\* The players in join order, each with the place they joined at.
Rosters ==
    UNION {[1..n -> StatsAfter(MaxRankQuestions)] : n \in 1..MaxRoster}

Joined_at(items) ==
    [i \in 1..Len(items) |->
        [joined |-> i, points |-> items[i].points,
         correct_answers |-> items[i].correct_answers,
         fast_bonuses |-> items[i].fast_bonuses]]

InitRanking ==
    /\ variant \in Variants
    /\ GameAsMade
    /\ probe \in {[items |-> Joined_at(r), view |-> None, shown |-> <<>>] :
                    r \in Rosters}

\* /leaderboard during the game.
RankingShowLeaderboard ==
    /\ probe.view = None
    /\ probe' = [probe EXCEPT !.view = "leaderboard",
                              !.shown = sorted_current(variant, probe.items)]
    /\ GameUntouched

\* The final results of end_game.
RankingEndGame ==
    /\ probe.view = None
    /\ variant = QUIZAPI
    /\ probe' = [probe EXCEPT !.view = "final",
                              !.shown = sorted_players(probe.items)]
    /\ GameUntouched

NextRanking == RankingShowLeaderboard \/ RankingEndGame

SpecRanking == InitRanking /\ [][NextRanking]_vars

(***************************************************************************)
(* The all-time list.  leaderboard_data['rankings'].items() is the entries *)
(* in the order they were put into the dict, here a sequence of entries    *)
(* with the place they were inserted at.                                   *)
(***************************************************************************)
ByTotalPoints(items) == [i \in 1..Len(items) |-> <<items[i].total_points>>]

Top(s, n) == SubSeq(s, 1, IF Len(s) < n THEN Len(s) ELSE n)

\* An all-time list that is not cut.
sorted_all_time_uncut(items) == Sorted(items, ByTotalPoints(items))

\* show_leaderboard: sorted(rankings.items(), key=total_points,
\* reverse=True)[:10]
sorted_all_time(items) == Top(Sorted(items, ByTotalPoints(items)), TopN)

\* end_game of Pytrivia.py: the same of the entries with points.
sorted_all_time_with_points(items) ==
    sorted_all_time(SelectSeq(items, LAMBDA x : x.total_points > 0))

Registries ==
    UNION {[1..n -> 0..MaxTotal] : n \in 0..MaxEntries}

Inserted_at(totals) ==
    [i \in 1..Len(totals) |-> [inserted |-> i, total_points |-> totals[i]]]

InitAllTime ==
    /\ variant \in Variants
    /\ GameAsMade
    /\ probe \in {[items |-> Inserted_at(r), view |-> None, shown |-> <<>>] :
                    r \in Registries}

\* /leaderboard: the all-time part, sent when there are rankings.
AllTimeShowLeaderboard ==
    /\ probe.view = None
    /\ probe.items # <<>>
    /\ probe' = [probe EXCEPT !.view = "leaderboard",
                              !.shown = sorted_all_time(probe.items)]
    /\ GameUntouched

\* The hall of fame end_game of Pytrivia.py sends.
AllTimeEndGame ==
    /\ probe.view = None
    /\ variant = OPENTDB
    /\ probe' = [probe EXCEPT !.view = "final",
                              !.shown = sorted_all_time_with_points(probe.items)]
    /\ GameUntouched

NextAllTime == AllTimeShowLeaderboard \/ AllTimeEndGame

SpecAllTime == InitAllTime /\ [][NextAllTime]_vars

(***************************************************************************)
(* save_data.  registered_players and leaderboard_data are the two dicts   *)
(* in memory, here the number of changes made to each; disk is the four    *)
(* paths of Pydata, each a file with the content of some moment of the     *)
(* dict, complete or cut short, or no file.  save_data has no await: the   *)
(* game changes its dicts only between two calls.  Any step of it can      *)
(* raise, which the except clause turns into the result False, and the     *)
(* process can be killed at any step.                                      *)
(***************************************************************************)
NoFile == [version |-> -1, complete |-> FALSE]

File(version) == [version |-> version, complete |-> TRUE]

\* open(path, 'w') has made or emptied the file and json.dump is not through.
Partial(version) == [version |-> version, complete |-> FALSE]

InitSave ==
    /\ variant \in Variants
    /\ GameAsMade
    /\ probe = [registered_players |-> 0, leaderboard_data |-> 0,
                disk |-> [players |-> NoFile, players_tmp |-> NoFile,
                          leaderboard |-> NoFile, leaderboard_tmp |-> NoFile],
                before |-> [players |-> NoFile, leaderboard |-> NoFile],
                pc |-> "idle", result |-> "running", failures |-> 0,
                crashed |-> FALSE]

Running == ~probe.crashed

\* The game goes on between two saves: a join registers a player, end_game
\* folds the game into the rankings.
SaveGameGoesOn ==
    /\ Running /\ probe.pc = "idle"
    /\ \/ /\ probe.registered_players < MaxVersion
          /\ probe' = [probe EXCEPT !.registered_players = @ + 1]
       \/ /\ probe.leaderboard_data < MaxVersion
          /\ probe' = [probe EXCEPT !.leaderboard_data = @ + 1]
    /\ GameUntouched

\* save_data is called.
save_data ==
    /\ Running /\ probe.pc = "idle"
    /\ probe' = [probe EXCEPT !.pc = "open_players_tmp", !.result = "running",
                              !.before = [players |-> probe.disk.players,
                                          leaderboard |-> probe.disk.leaderboard]]
    /\ GameUntouched

\* with open(self.players_file + '.tmp', 'w') as f:
SaveOpenPlayersTmp ==
    /\ Running /\ probe.pc = "open_players_tmp"
    /\ probe' = [probe EXCEPT !.pc = "dump_players",
                    !.disk.players_tmp = Partial(probe.registered_players)]
    /\ GameUntouched

\* json.dump(self.registered_players, f, indent=4), and the file is closed.
SaveDumpPlayers ==
    /\ Running /\ probe.pc = "dump_players"
    /\ probe' = [probe EXCEPT !.pc = "replace_players",
                    !.disk.players_tmp = File(probe.registered_players)]
    /\ GameUntouched

\* os.replace(self.players_file + '.tmp', self.players_file)
SaveReplacePlayers ==
    /\ Running /\ probe.pc = "replace_players"
    /\ probe' = [probe EXCEPT !.pc = "open_leaderboard_tmp",
                    !.disk.players = probe.disk.players_tmp,
                    !.disk.players_tmp = NoFile]
    /\ GameUntouched

\* A save_data that writes leaderboard.json in place.
SaveOpenLeaderboardInPlace ==
    /\ Running /\ probe.pc = "open_leaderboard_tmp"
    /\ probe' = [probe EXCEPT !.pc = "dump_leaderboard",
                    !.disk.leaderboard = Partial(probe.leaderboard_data),
                    !.disk.leaderboard_tmp = Partial(probe.leaderboard_data)]
    /\ GameUntouched

\* with open(self.leaderboard_file + '.tmp', 'w') as f:
SaveOpenLeaderboardTmp ==
    /\ Running /\ probe.pc = "open_leaderboard_tmp"
    /\ probe' = [probe EXCEPT !.pc = "dump_leaderboard",
                    !.disk.leaderboard_tmp = Partial(probe.leaderboard_data)]
    /\ GameUntouched

\* json.dump(self.leaderboard_data, f, indent=4), and the file is closed.
SaveDumpLeaderboard ==
    /\ Running /\ probe.pc = "dump_leaderboard"
    /\ probe' = [probe EXCEPT !.pc = "replace_leaderboard",
                    !.disk.leaderboard_tmp = File(probe.leaderboard_data)]
    /\ GameUntouched

\* os.replace(self.leaderboard_file + '.tmp', self.leaderboard_file);
\* return True
SaveReplaceLeaderboard ==
    /\ Running /\ probe.pc = "replace_leaderboard"
    /\ probe' = [probe EXCEPT !.pc = "idle", !.result = "True",
                    !.disk.leaderboard = probe.disk.leaderboard_tmp,
                    !.disk.leaderboard_tmp = NoFile]
    /\ GameUntouched

\* A save_data without its except clause: the error goes to the caller.
SaveRaisesToCaller ==
    /\ Running /\ probe.pc \notin {"idle", "raised"}
    /\ probe.failures < MaxFailures
    /\ probe' = [probe EXCEPT !.pc = "raised", !.failures = @ + 1]
    /\ GameUntouched

\* The step save_data stands at raises (the disk is full, the directory is
\* gone): except Exception, print, return False.
SaveRaises ==
    /\ Running /\ probe.pc # "idle"
    /\ probe.failures < MaxFailures
    /\ probe' = [probe EXCEPT !.pc = "idle", !.result = "False",
                              !.failures = @ + 1]
    /\ GameUntouched

\* The process is killed.
SaveCrash ==
    /\ Running
    /\ probe' = [probe EXCEPT !.crashed = TRUE]
    /\ GameUntouched

NextSave ==
    \/ SaveGameGoesOn
    \/ save_data
    \/ SaveOpenPlayersTmp
    \/ SaveDumpPlayers
    \/ SaveReplacePlayers
    \/ SaveOpenLeaderboardTmp
    \/ SaveDumpLeaderboard
    \/ SaveReplaceLeaderboard
    \/ SaveRaises
    \/ SaveCrash

SpecSave == InitSave /\ [][NextSave]_vars

(***************************************************************************)
(* fetch_questions and the lines of start_game around it.  A request ends  *)
(* with status 200 and a body that can be read ("ok"), with another status *)
(* ("status"), with an exception of the session or of the parsing          *)
(* ("exception") or, at OpenTDB, with status 200 and a response_code other *)
(* than 0 ("refused").  log is the outcomes of the requests of this call,  *)
(* slept the sleeps between them.                                          *)
(***************************************************************************)
Outcomes == {"ok", "status", "exception", "refused"}

InitFetch ==
    /\ variant \in Variants
    /\ GameAsMade
    /\ \E key \in BOOLEAN :
          probe = [api_key |-> key \/ variant = OPENTDB, pc |-> "idle",
                   fetches |-> 0, log |-> <<>>, slept |-> 0, result |-> "none",
                   questions |-> 0, is_active |-> FALSE]

\* start_game calls fetch_questions; Pytrivia-quizapi.py returns False at
\* once without QUIZ_API_KEY.
FetchCall ==
    /\ probe.pc = "idle" /\ ~probe.is_active
    /\ probe.fetches < MaxFetches
    /\ probe' = [probe EXCEPT !.fetches = @ + 1, !.log = <<>>, !.slept = 0,
                    !.pc = IF probe.api_key THEN "request" ELSE "returned",
                    !.result = IF probe.api_key THEN "none" ELSE "False"]
    /\ GameUntouched

\* One pass of the loop of Pytrivia-quizapi.py from the request on.
FetchRequestQuizapi(outcome, n) ==
    LET log == Append(probe.log, outcome)
        attempt == Len(probe.log)
    IN  CASE outcome = "ok" ->
               [probe EXCEPT !.log = log, !.questions = n,
                             !.result = "True", !.pc = "returned"]
          [] outcome = "status" ->
               IF attempt + 1 < Retries
               THEN [probe EXCEPT !.log = log]
               ELSE [probe EXCEPT !.log = log, !.result = "False",
                                  !.pc = "returned"]
          [] OTHER ->
               IF attempt = Retries - 1
               THEN [probe EXCEPT !.log = log, !.result = "False",
                                  !.pc = "returned"]
               ELSE [probe EXCEPT !.log = log, !.pc = "sleep"]

\* The one request of Pytrivia.py.
FetchRequestOpentdb(outcome, n) ==
    IF outcome = "ok"
    THEN [probe EXCEPT !.log = Append(probe.log, outcome), !.questions = n,
                       !.result = "True", !.pc = "returned"]
    ELSE [probe EXCEPT !.log = Append(probe.log, outcome),
                       !.result = "False", !.pc = "returned"]

FetchRequest(outcome, n) ==
    /\ probe.pc = "request"
    /\ outcome = "refused" => variant = OPENTDB
    /\ probe' = IF variant = QUIZAPI THEN FetchRequestQuizapi(outcome, n)
                                     ELSE FetchRequestOpentdb(outcome, n)
    /\ GameUntouched

\* await asyncio.sleep(1) is over.
FetchSleepOver ==
    /\ probe.pc = "sleep"
    /\ probe' = [probe EXCEPT !.pc = "request", !.slept = @ + 1]
    /\ GameUntouched

\* start_game after the call: is_active = True, or the message that the
\* questions could not be fetched and is_active = False.
FetchReturned ==
    /\ probe.pc = "returned"
    /\ probe' = [probe EXCEPT !.pc = "idle",
                              !.is_active = (probe.result = "True")]
    /\ GameUntouched

\* A game that was started ends.
FetchGameOver ==
    /\ probe.pc = "idle" /\ probe.is_active
    /\ probe' = [probe EXCEPT !.is_active = FALSE]
    /\ GameUntouched

NextFetch ==
    \/ FetchCall
    \/ \E outcome \in Outcomes, n \in 0..MaxQuestions : FetchRequest(outcome, n)
    \/ FetchSleepOver
    \/ FetchReturned
    \/ FetchGameOver

SpecFetch == InitFetch /\ [][NextFetch]_vars

(***************************************************************************)
(* The buttons.  show_question puts under the message of a question one    *)
(* button for every option, with callback_data "answer_" and the key of    *)
(* the option; the messages of earlier questions stay in the chat with     *)
(* their buttons.  handle_answer gets the callback_data of the button      *)
(* pressed.  Here both users have joined, game is the fields that          *)
(* handle_answer reads and writes, messages the questions whose message is *)
(* in the chat, and press what handle_answer made of the last press: the   *)
(* question the button is under (origin) and the question it was           *)
(* evaluated against.                                                      *)
(***************************************************************************)
NoPress == [user |-> None, origin |-> -1, against |-> -1, taken |-> FALSE,
            correct |-> FALSE]

\* callback_data of the button of option k: the question is not in it.
callback_data(m, k) == k

InitPress ==
    /\ variant \in Variants
    /\ GameAsMade
    /\ \E n \in 1..MaxQuestions :
          probe = [questions |-> FetchedQuestions(variant, n),
                   is_active |-> TRUE, current_question_index |-> 0,
                   answered_players |-> {}, correct_players |-> {},
                   points |-> [u \in Users |-> 0],
                   messages |-> {0}, press |-> NoPress]

\* The timer or next_game: the index goes up and show_question shows the
\* next question or ends the game.
PressShowNext ==
    /\ probe.is_active
    /\ LET idx == probe.current_question_index + 1 IN
       probe' = IF idx >= Len(probe.questions)
                THEN [probe EXCEPT !.current_question_index = idx,
                                   !.is_active = FALSE, !.press = NoPress]
                ELSE [probe EXCEPT !.current_question_index = idx,
                                   !.answered_players = {},
                                   !.correct_players = {},
                                   !.messages = @ \cup {idx},
                                   !.press = NoPress]
    /\ GameUntouched

\* handle_answer for the press of u on the button of option k under the
\* message of question m.
PressAnswer(u, m, k) ==
    /\ m \in probe.messages
    /\ LET answer_key == callback_data(m, k)
           question == probe.questions[probe.current_question_index + 1]
           turned_away ==
              \/ ~probe.is_active
              \/ variant = QUIZAPI /\ u \in probe.correct_players
              \/ u \in probe.answered_players
           correct == IsCorrect(question, answer_key)
       IN
       probe' = IF turned_away
                THEN [probe EXCEPT !.press = [NoPress EXCEPT !.user = u,
                                                             !.origin = m]]
                ELSE [probe EXCEPT
                        !.answered_players = @ \cup {u},
                        !.correct_players = IF correct THEN @ \cup {u} ELSE @,
                        !.points[u] = IF correct THEN @ + 1 ELSE @,
                        !.press = [user |-> u, origin |-> m,
                                   against |-> probe.current_question_index,
                                   taken |-> TRUE, correct |-> correct]]
    /\ GameUntouched

NextPress ==
    \/ PressShowNext
    \/ \E u \in Users, m \in 0..MaxQuestions, k \in Keys : PressAnswer(u, m, k)

SpecPress == InitPress /\ [][NextPress]_vars

(***************************************************************************)
(* calculate_speed_bonus on its own: any two elapsed times up to MaxProbe  *)
(* tenths of a second, and the bonus of each.                              *)
(***************************************************************************)
InitBonus ==
    /\ variant \in Variants
    /\ players = EmptyDict
    /\ current_question = NoQuestion
    /\ question_start_time = NoTime
    /\ is_active = FALSE
    /\ questions = <<>>
    /\ current_question_index = 0
    /\ answered_players = {}
    /\ correct_players = {}
    /\ rankings = EmptyDict
    /\ tasks = <<>>
    /\ update = Idle
    /\ notice = NoNotice
    /\ games_started = 0
    /\ probe \in {[NoProbe EXCEPT !.t1 = a, !.t2 = b] :
                    a \in 0..MaxProbe, b \in 0..MaxProbe}

SpeedBonus ==
    /\ ~probe.computed
    /\ probe' = [probe EXCEPT !.computed = TRUE,
                              !.bonus1 = calculate_speed_bonus(probe.t1),
                              !.bonus2 = calculate_speed_bonus(probe.t2)]
    /\ notice' = NoNotice
    /\ UNCHANGED <<variant, players, current_question, question_start_time,
                   is_active, questions, current_question_index,
                   answered_players, correct_players, rankings, tasks, update,
                   games_started>>

NextBonus == SpeedBonus

SpecBonus == InitBonus /\ [][NextBonus]_vars

(***************************************************************************)
(* Properties.                                                             *)
(***************************************************************************)

\* C1: a press of somebody who is already in answered_players is turned
\* away, and leaves answered_players, correct_players and the points,
\* correct answers and speed bonuses of every player as they were, in both
\* bots and also when the first attempt was wrong.
C1_SecondAnswerRejected ==
    [][\A u \in Users, k \in Keys, d \in ArrivalDelays :
          (u \in answered_players /\ handle_answer(u, k, d))
             => /\ notice' \notin {"correct", "wrong"}
                /\ UNCHANGED <<answered_players, correct_players, players>>]_vars

\* A player of Pytrivia-quizapi.py who answered wrong pressed again and was
\* told that the question was attempted already.
C1_WrongThenTurnedAway ==
    /\ variant = QUIZAPI
    /\ is_active
    /\ notice = "already_attempted"
    /\ \E u \in answered_players : u \notin correct_players

\* C2: the fold of a session into the rankings happens once per session at
\* most: nobody has more games_played than games were started, and after one
\* game nobody's total_points exceed the points of that game.
C2_FoldedOncePerSession ==
    \A u \in DOMAIN rankings :
       /\ rankings[u].games_played <= games_started
       /\ (games_started <= 1 /\ u \in DOMAIN players)
             => rankings[u].total_points <= players[u].points

\* Somebody stands at the await of end_game, the fold still ahead or done.
InEndGame ==
    \/ update.pc = "eg_reply"
    \/ \E i \in 1..Len(tasks) : tasks[i].pc = "eg_reply"

\* C3: whatever ends an active game (the timer after the last question, an
\* answer, next_game, force_end_game) runs the fold of end_game: the step
\* that makes is_active False has updated the rankings or is followed by
\* the rest of end_game.
C3_EveryEndFolds ==
    [][(is_active /\ ~is_active')
          => (rankings' = UpdateLeaderboard(rankings, players) /\ variant = OPENTDB)
             \/ InEndGame']_vars


\* Task i wakes from its sleep or goes on after its "time's up" message.
TaskFires(i) ==
    TimerFires(i) \/ TimerAdvance(i) \/ TimerSchedulesNext(i) \/ ShowNextFires(i)

\* The timer auto_advance_task refers to.
ArmedTimer(ts) == SelectSeq(ts, LAMBDA t : t.handle)

\* C4: a timer of a question that is not the current one any more, and the
\* show_next_question it left behind, do nothing when they fire or go on:
\* the index, answered_players, correct_players and the timer of the current
\* question stay as they are, so that next_game followed by the old timer
\* does not advance twice.
C4_StaleTimerDoesNothing ==
    [][\A i \in 1..Len(tasks) :
          (tasks[i].message # current_question_index /\ TaskFires(i))
             => /\ UNCHANGED <<current_question_index, answered_players,
                               correct_players>>
                /\ ArmedTimer(tasks') = ArmedTimer(Without(tasks, i))]_vars

\* C5: from one question shown to the next the index goes up by exactly 1
\* (the questions carry their position as id), and when the game has run to
\* its end the index is one more than that of the last question shown,
\* however the advance after an answer, the timer and next_game interleave.
\* (force_end_game ends the game where it stands and is left out.)
C5_AdvanceByExactlyOne ==
    [][/\ (current_question' # current_question /\ current_question' # NoQuestion)
             => current_question'.id = current_question.id + 1
       /\ (~is_active' /\ update'.handler # "force_end_game")
             => current_question_index' = current_question'.id]_vars

\* C6: current_question_index never goes down and is never more than the
\* number of questions.
C6_IndexMonotoneAndBounded ==
    [][/\ current_question_index' >= current_question_index
       /\ current_question_index' <= Len(questions')]_vars

\* C7: who is correct has attempted, and who has attempted is a player, over
\* joins, answers, questions shown, reset_scores and force_end_game.
C7_CorrectAttemptedRoster ==
    /\ correct_players \subseteq answered_players
    /\ answered_players \subseteq DOMAIN players
    /\ Cardinality(answered_players) <= Cardinality(DOMAIN players)

\* C8: an answer that is taken puts the player into answered_players; a
\* correct one also into correct_players, with 1 point plus the speed bonus
\* of the time since the question was shown, one more correct answer, and
\* one more speed bonus exactly when the bonus is not 0; a wrong one leaves
\* the player's stats; nobody else's stats change.
C8_AnswerScored ==
    [][\A u \in Users, k \in Keys, d \in ArrivalDelays :
          (AnswerRejection(u) = "ok" /\ handle_answer(u, k, d))
             => LET elapsed == question_start_time'
                    bonus == IF elapsed <= 50 THEN 3
                             ELSE IF elapsed <= 150 THEN 2
                             ELSE IF elapsed <= 300 THEN 1
                             ELSE 0
                    correct == /\ current_question # NoQuestion
                               /\ k = current_question.correct_key
                IN /\ answered_players' = answered_players \cup {u}
                   /\ DOMAIN players' = DOMAIN players
                   /\ \A o \in DOMAIN players \ {u} : players'[o] = players[o]
                   /\ IF correct
                      THEN /\ correct_players' = correct_players \cup {u}
                           /\ players'[u].points = players[u].points + 1 + bonus
                           /\ players'[u].correct_answers
                                 = players[u].correct_answers + 1
                           /\ players'[u].fast_bonuses
                                 = players[u].fast_bonuses
                                   + (IF bonus > 0 THEN 1 ELSE 0)
                      ELSE /\ correct_players' = correct_players
                           /\ players'[u] = players[u]]_vars

\* Of two players one has answered right after more than 30 seconds, for 1
\* point and no speed bonus, and the other wrong.
C8_LateCorrectAndWrong ==
    /\ is_active
    /\ answered_players \subseteq DOMAIN players
    /\ \E u \in correct_players : players[u] = [points |-> 1,
                                               correct_answers |-> 1,
                                               fast_bonuses |-> 0]
    /\ \E o \in answered_players \ correct_players : players[o] = NewPlayer

\* C9: the speed bonus is 3 up to 5 seconds, 2 up to 15, 1 up to 30 and 0
\* after that, for every elapsed time; it never grows with the time; and
\* 4.9 s, 14.9 s, 29.9 s and 30.1 s give 3, 2, 1 and 0.
C9_SpeedBonusTable ==
    probe.computed
       => /\ probe.bonus1 \in {0, 1, 2, 3}
          /\ probe.bonus1 = (IF probe.t1 <= 50 THEN 3
                             ELSE IF probe.t1 <= 150 THEN 2
                             ELSE IF probe.t1 <= 300 THEN 1
                             ELSE 0)
          /\ probe.t1 <= probe.t2 => probe.bonus2 <= probe.bonus1
          /\ probe.t1 = 49 => probe.bonus1 = 3
          /\ probe.t1 = 149 => probe.bonus1 = 2
          /\ probe.t1 = 299 => probe.bonus1 = 1
          /\ probe.t1 = 301 => probe.bonus1 = 0

\* The bonus of exactly 30 seconds and of 30.1 seconds were computed.
C9_ThirtySeconds ==
    /\ probe.computed
    /\ probe.t1 = 300 /\ probe.bonus1 = 1
    /\ probe.t2 = 301 /\ probe.bonus2 = 0

\* C10: in Pytrivia-quizapi.py the answer that makes everybody a player who
\* has attempted moves the game on, all correct or not, without the timer:
\* when its handler is through, the game is not still on a question that
\* every player has attempted.
C10_AllAttemptedMovesOn ==
    (variant = QUIZAPI /\ is_active /\ update = Idle /\ DOMAIN players # {})
       => answered_players # DOMAIN players

\* u1 was right after 3 seconds for 4 points, u2 wrong after 10 seconds for
\* none, and the second question has just been shown with a new timer.
C10_SecondQuestionAfterBothAnswered ==
    /\ variant = QUIZAPI /\ is_active /\ update = Idle
    /\ DOMAIN players = {"u1", "u2"}
    /\ players["u1"] = [points |-> 4, correct_answers |-> 1, fast_bonuses |-> 1]
    /\ players["u2"] = NewPlayer
    /\ current_question_index = 1
    /\ question_start_time = 0
    /\ answered_players = {}
    /\ tasks = <<NewTimer(1)>>

\* C11: when the timer of the current question has run out and the task it
\* started moves the game on to a question that is there, the index goes up
\* by exactly 1, answered_players and correct_players are emptied, the time
\* of the question starts anew, and the task goes on to arm the timer of
\* the new question, in both bots.
C11_DeadlineShowsNextQuestion ==
    [][\A i \in 1..Len(tasks) :
          (/\ is_active
           /\ tasks[i].message = current_question_index
           /\ current_question_index + 1 < Len(questions)
           /\ TimerAdvance(i) \/ ShowNextFires(i))
             => /\ current_question_index' = current_question_index + 1
                /\ current_question' = questions[current_question_index + 2]
                /\ answered_players' = {} /\ correct_players' = {}
                /\ question_start_time' = 0
                /\ \E j \in 1..Len(tasks') :
                      /\ tasks'[j].pc = "sq_reply"
                      /\ tasks'[j].message = current_question_index']_vars

\* C12: a game that is active with questions ends in the end, though nobody
\* answers and no administrator does anything, the timers being run.
C12_UnattendedGameEnds ==
    (is_active /\ Len(questions) > 0) ~> ~is_active

\* What a rejected command leaves alone: everything but the reply.
GameState ==
    <<variant, players, current_question, question_start_time, is_active,
      questions, current_question_index, answered_players, correct_players,
      rankings, tasks, update, games_started, probe>>

\* C13: force_end_game acts only on an active game.  Accepted, it leaves no
\* timer sleeping (neither auto_advance_question nor show_next_question);
\* when it is through, the game is not active and nobody has more games in
\* the rankings than were started; an answer sent while the game is not
\* active changes nothing.  Sent by an administrator while no game is
\* active, it changes nothing.
C13_ForceEndOnlyWhileActive ==
    [][/\ \A actor \in Actors :
             force_end_game(actor)
                => IF is_active
                   THEN is_admin(actor)
                           => \A i \in 1..Len(tasks') : tasks'[i].pc # "sleep"
                   ELSE UNCHANGED GameState
       /\ (update.handler = "force_end_game" /\ HandlerEnded)
             => /\ ~is_active'
                /\ \A u \in DOMAIN rankings' :
                      rankings'[u].games_played <= games_started
       /\ \A u \in Users, k \in Keys, d \in ArrivalDelays :
             (~is_active /\ handle_answer(u, k, d)) => UNCHANGED GameState]_vars

\* C14 as the specification words it: start_game is accepted only for a
\* game that was never started (announced, not active, nothing played yet)
\* and has players; sent for a game without players, for an active game or
\* for a game that is over, it changes nothing.
C14_StartOnlyOnceAndWithPlayers ==
    [][\A actor \in Actors :
          StartGame(actor, MaxReplayGames)
             => IF /\ is_admin(actor)
                   /\ ~is_active /\ games_started = 0
                   /\ DOMAIN players # {}
                THEN update'.handler = "start_game"
                ELSE UNCHANGED GameState]_vars

\* C14: start_game of an administrator is accepted exactly when the game
\* is not active and has players, be it a game never started or one that
\* is over; accepted, it goes to fetch its questions with the players, the
\* questions, the index and the active flag as they were; turned away, it
\* changes nothing.
C14_StartWhenNotActiveWithPlayers ==
    [][\A actor \in Actors :
          StartGame(actor, MaxReplayGames)
             => IF is_admin(actor) /\ ~is_active /\ DOMAIN players # {}
                THEN /\ update'.handler = "start_game"
                     /\ update'.pc = "fetch"
                     /\ UNCHANGED <<players, questions, current_question_index,
                                    is_active, rankings, tasks, games_started>>
                ELSE UNCHANGED GameState]_vars

\* A game that is over was started again.
C14_SecondStartAccepted ==
    /\ games_started = 1
    /\ ~is_active
    /\ update.handler = "start_game" /\ update.pc = "fetch"

\* C15: when start_game presents its first question, the game is active,
\* current_question_index is 0 and the question shown is the first of the
\* questions just fetched.
C15_StartShowsQuestionZero ==
    [][(StartGameShow /\ Len(questions) > 0)
          => /\ is_active'
             /\ current_question_index' = 0
             /\ current_question' = questions[1]]_vars

\* C16: when fetch_questions fails in start_game, the game is not active
\* afterwards, the players and their numbers and the rankings are what they
\* were before, no game counts as started, and the next start_game of an
\* administrator is not turned away: nobody has to join again.
C16_FetchFailureKeepsPlayers ==
    [][StartGameFetchFailed
          => /\ ~is_active'
             /\ players' = players
             /\ rankings' = rankings
             /\ games_started' = games_started
             /\ update' = Idle
             /\ DOMAIN players' # {}
             /\ \A actor \in Actors :
                   is_admin(actor) => StartRejection(actor)' = "ok"]_vars

\* A fetch has just failed for a game with players.
C16_FetchFailedWithPlayers ==
    /\ notice = "fetch_failed"
    /\ ~is_active
    /\ DOMAIN players = Users

\* join_trivia has added u with a new player's numbers and nothing else.
Joined(u) ==
    /\ DOMAIN players' = DOMAIN players \cup {u}
    /\ players'[u] = NewPlayer
    /\ \A v \in DOMAIN players : players'[v] = players[v]
    /\ UNCHANGED <<is_active, questions, current_question_index,
                   answered_players, correct_players, rankings, tasks>>

\* C17 as the specification words it: in both programs a user who is not a
\* player joins before the first start and while the game is active, with
\* zero points, correct answers and bonuses; a player who joins again
\* changes nothing.
C17_JoinBeforeAndDuringGame ==
    [][\A u \in Users :
          join_trivia(u)
             => IF u \in DOMAIN players
                THEN UNCHANGED GameState
                ELSE (is_active \/ games_started = 0) => Joined(u)]_vars

\* C17: a user who is not a player joins with zero points, correct answers
\* and bonuses whenever the game is not active, and in Pytrivia.py also
\* while it is active; Pytrivia-quizapi.py turns a join away while the game
\* is active, and a player who joins again changes nothing.
C17_JoinUnlessActiveInQuizapi ==
    [][\A u \in Users :
          join_trivia(u)
             => IF u \in DOMAIN players \/ (variant = QUIZAPI /\ is_active)
                THEN UNCHANGED GameState
                ELSE Joined(u)]_vars

\* Pytrivia-quizapi.py has just turned away a join during the game.
C17_LateJoinTurnedAway ==
    /\ variant = QUIZAPI
    /\ is_active
    /\ notice = "game_in_progress"
    /\ DOMAIN players # Users

\* The game was started and is over (ended by a timer, an answer, next_game
\* or force_end_game).
GameOver == games_started >= 1 /\ ~is_active

C19_AnswerNeedsActiveGameAndPlayer ==
    [][\A u \in Users :
          ~(is_active /\ u \in DOMAIN players)
             => /\ u \in answered_players' => u \in answered_players
                /\ u \in correct_players' => u \in correct_players
                /\ (u \in DOMAIN players /\ u \in DOMAIN players')
                      => players'[u] = players[u]
                /\ notice' \in {"no_active_game", "must_join"}
                      => UNCHANGED GameState]_vars

\* During a game one player has answered, and the answer of somebody who
\* has not joined was just turned away.
C19_StrangerTurnedAway ==
    /\ is_active
    /\ notice = "must_join"
    /\ answered_players # {}
    /\ answered_players \subseteq DOMAIN players
    /\ DOMAIN players # Users

\* C20: start_game, next_game and force_end_game sent by somebody who is
\* not an administrator are answered with "administrators only" and leave
\* the active flag, the index, the questions, the timers, the players, the
\* rankings and everything else as they were.
C20_AdminsOnly ==
    [][\A actor \in Actors :
          (/\ ~is_admin(actor)
           /\ start_game(actor) \/ next_game(actor) \/ force_end_game(actor))
             => /\ notice' = "admins_only"
                /\ UNCHANGED GameState]_vars

\* Somebody who is not an administrator has just sent one of the three
\* commands during a question of an active game.
C20_MemberTurnedAwayDuringGame ==
    /\ notice = "admins_only"
    /\ is_active
    /\ tasks # <<>>
    /\ answered_players # {}

\* The timer auto_advance_task refers to is asleep: the deadline of the
\* current question is still ahead.
DeadlinePending ==
    \E i \in 1..Len(tasks) : tasks[i].handle /\ tasks[i].pc = "sleep"

\* C21: next_game acts only on an active game.  From the command to the
\* question it shows, the index goes up by exactly one: nothing moves it
\* while next_game awaits its summary, then next_game adds one and shows
\* that question, the old deadline cancelled, or ends the game when no
\* question is left (of a game that has questions).  Sent while no game is
\* active, it changes nothing.
C21_NextGameAdvancesByOne ==
    [][/\ \A actor \in Actors :
             (~is_active /\ next_game(actor)) => UNCHANGED GameState
       /\ (/\ update.handler = "next_game" /\ update.pc = "summary"
           /\ Len(questions) > 0)
             => IF ~NextGameAdvance
                THEN /\ current_question_index' = current_question_index
                     /\ is_active' = is_active
                ELSE /\ current_question_index' = current_question_index + 1
                     /\ IF current_question_index' < Len(questions)
                        THEN /\ is_active'
                             /\ current_question'
                                   = questions[current_question_index' + 1]
                             /\ ~DeadlinePending'
                        ELSE ~is_active']_vars

\* The step has folded the players into the rankings: one game more and the
\* points of the game on top for every player, from zero for a player the
\* rankings did not have, and the others' entries as they were.
Folded ==
    /\ DOMAIN rankings' = DOMAIN rankings \cup DOMAIN players
    /\ \A u \in DOMAIN players :
          LET had == u \in DOMAIN rankings IN
          /\ rankings'[u].games_played
                = (IF had THEN rankings[u].games_played ELSE 0) + 1
          /\ rankings'[u].total_points
                = (IF had THEN rankings[u].total_points ELSE 0)
                     + players[u].points
    /\ \A u \in DOMAIN rankings \ DOMAIN players : rankings'[u] = rankings[u]

\* C22: the fold of end_game, which Pytrivia.py runs before the results are
\* sent and Pytrivia-quizapi.py after, gives every player one game more and
\* the points of the game on top, from zero for a player without an entry,
\* and changes the entry of nobody else; and whatever changes the rankings
\* without emptying them is such a fold.
C22_FoldPerPlayer ==
    [][/\ (variant = QUIZAPI /\ (HandlerEnded \/ \E i \in 1..Len(tasks) : TaskEnded(i)))
             => Folded
       /\ (variant = OPENTDB /\ ~InEndGame /\ InEndGame') => Folded
       /\ (rankings' # rankings /\ rankings' # EmptyDict) => Folded]_vars

\* The game is over and folded: u1 with points, and everybody has an entry.
C22_FoldedWithPoints ==
    /\ ~is_active
    /\ ~InEndGame
    /\ DOMAIN rankings = Users
    /\ \E u \in Users :
          /\ u \in DOMAIN players
          /\ players[u].points > 0
          /\ rankings[u] = [total_points |-> players[u].points,
                            games_played |-> 1]

\* No entry of the rankings disappears and none loses points or games.
RankingsGrow ==
    \A u \in DOMAIN rankings :
       /\ u \in DOMAIN rankings'
       /\ rankings'[u].total_points >= rankings[u].total_points
       /\ rankings'[u].games_played >= rankings[u].games_played

\* The step is inside end_game: Pytrivia.py folds on the way to the await
\* of the results, Pytrivia-quizapi.py after it.
InsideEndGame ==
    IF variant = OPENTDB THEN ~is_active' /\ InEndGame'
    ELSE ~is_active /\ InEndGame

Session(g) ==
    [players |-> g.players, is_active |-> g.is_active,
     questions |-> g.questions,
     current_question_index |-> g.current_question_index,
     answered_players |-> g.answered_players,
     correct_players |-> g.correct_players,
     auto_advance_task |-> g.auto_advance_task]

\* C24: whatever happens in one chat (start_trivia, a join, start_game, an
\* answer, the timer, next_game, force_end_game), the game of every other
\* chat keeps its players and their points, its index, answered_players,
\* correct_players, its active flag and its timer.
C24_ChatsIndependent ==
    [][\A c \in DOMAIN probe.games :
          c # probe'.chat
             => /\ c \in DOMAIN probe'.games
                /\ Session(probe'.games[c]) = Session(probe.games[c])]_vars

\* Both chats have an active game, and in one somebody has answered.
C24_TwoGamesRunning ==
    /\ DOMAIN probe.games = Chats
    /\ \A c \in Chats : probe.games[c].is_active
    /\ probe.games["c1"].answered_players # {}
    /\ probe.games["c2"].answered_players = {}
    /\ probe.chat = "c1"

\* C25: the ranking of the current game that /leaderboard and the final
\* results show has every player exactly once, more points first, then more
\* speed bonuses, then more correct answers, and players equal in all three
\* in the order they joined.
C25_RankingOrder ==
    probe.view # None
       => /\ Len(probe.shown) = Len(probe.items)
          /\ \A i \in 1..Len(probe.items) :
                Cardinality({k \in 1..Len(probe.shown) :
                               probe.shown[k] = probe.items[i]}) = 1
          /\ \A k \in 1..(Len(probe.shown) - 1) :
                LET x == probe.shown[k]
                    y == probe.shown[k + 1]
                IN \/ x.points > y.points
                   \/ /\ x.points = y.points
                      /\ x.fast_bonuses > y.fast_bonuses
                   \/ /\ x.points = y.points
                      /\ x.fast_bonuses = y.fast_bonuses
                      /\ x.correct_answers > y.correct_answers
                   \/ /\ x.points = y.points
                      /\ x.fast_bonuses = y.fast_bonuses
                      /\ x.correct_answers = y.correct_answers
                      /\ x.joined < y.joined

\* list is the first entries of `of` by total_points, greater first, equal
\* ones in insertion order: as many as there are, ten at most.
TopTenOf(list, of) ==
    /\ Len(list) = (IF Len(of) < TopN THEN Len(of) ELSE TopN)
    /\ \A k \in 1..Len(list) : \E i \in 1..Len(of) : list[k] = of[i]
    /\ \A k \in 1..(Len(list) - 1) :
          \/ list[k].total_points > list[k + 1].total_points
          \/ /\ list[k].total_points = list[k + 1].total_points
             /\ list[k].inserted < list[k + 1].inserted
    /\ \A i \in 1..Len(of) :
          (\A k \in 1..Len(list) : list[k] # of[i])
             => \A k \in 1..Len(list) :
                   \/ list[k].total_points > of[i].total_points
                   \/ /\ list[k].total_points = of[i].total_points
                      /\ list[k].inserted < of[i].inserted

\* C26 as the specification words it: every all-time list sent, by
\* /leaderboard and by end_game, is the first ten (or all) entries of the
\* rankings by total_points, ties in insertion order, and making it
\* changes neither the rankings nor the game.
C26_AllTimeTopTen ==
    [][probe'.view # None
          => /\ TopTenOf(probe'.shown, probe.items)
             /\ probe'.items = probe.items
             /\ GameUntouched]_vars

\* C26: the all-time list of /leaderboard is the first ten (or all) entries
\* of the rankings by total_points, ties in insertion order; the one
\* end_game of Pytrivia.py sends is the same of the entries that have
\* points; making either changes neither the rankings nor the game.
C26_AllTimeTopTenWithPoints ==
    [][probe'.view # None
          => /\ TopTenOf(probe'.shown,
                         IF probe'.view = "final"
                         THEN SelectSeq(probe.items,
                                        LAMBDA x : x.total_points > 0)
                         ELSE probe.items)
             /\ probe'.items = probe.items
             /\ GameUntouched]_vars

\* /leaderboard has cut a list of eleven entries, the last of them with
\* points and shown, one without points left out.
C26_EleventhLeftOut ==
    /\ probe.view = "leaderboard"
    /\ Len(probe.items) = TopN + 1
    /\ Len(probe.shown) = TopN
    /\ probe.items[TopN + 1].total_points > 0
    /\ \E k \in 1..TopN : probe.shown[k] = probe.items[TopN + 1]

\* C27: a step of save_data that raises ends save_data with the result
\* False and nothing raised: the dicts in memory and the game are what they
\* were, the two files too, and the game goes on from there; and a save
\* that gets through leaves in both files what the dicts hold then.
C27_SaveFailureContained ==
    [][/\ SaveRaises
             => /\ probe'.pc = "idle" /\ probe'.result = "False"
                /\ probe'.registered_players = probe.registered_players
                /\ probe'.leaderboard_data = probe.leaderboard_data
                /\ probe'.disk.players = probe.disk.players
                /\ probe'.disk.leaderboard = probe.disk.leaderboard
                /\ ~probe'.crashed
                /\ GameUntouched
       /\ (probe.pc # "idle" /\ probe'.pc = "idle" /\ probe'.result = "True")
             => /\ probe'.disk.players = File(probe'.registered_players)
                /\ probe'.disk.leaderboard = File(probe'.leaderboard_data)]_vars

\* A save failed, the game went on, and the next save has written what the
\* dicts hold now.
C27_SavedAfterFailure ==
    /\ probe.failures = 1
    /\ probe.pc = "idle" /\ probe.result = "True"
    /\ probe.leaderboard_data = MaxVersion
    /\ probe.disk.leaderboard = File(MaxVersion)

\* C28: wherever in save_data the process is killed, players.json is the
\* complete file it was before the call or the complete new one, and so is
\* leaderboard.json; killed at any time, neither of the two is a file cut
\* short: what is cut short is a .tmp file only.
C28_FilesWholeAfterCrash ==
    probe.crashed
       => /\ probe.pc # "idle"
                => /\ probe.disk.players
                         \in {probe.before.players,
                              File(probe.registered_players)}
                   /\ probe.disk.leaderboard
                         \in {probe.before.leaderboard,
                              File(probe.leaderboard_data)}
          /\ probe.disk.players = NoFile \/ probe.disk.players.complete
          /\ probe.disk.leaderboard = NoFile \/ probe.disk.leaderboard.complete

\* Killed while leaderboard.json.tmp was being written: players.json is the
\* new file already, leaderboard.json still the old one.
C28_KilledWhileDumping ==
    /\ probe.crashed
    /\ probe.pc = "dump_leaderboard"
    /\ probe.disk.leaderboard_tmp = Partial(MaxVersion)
    /\ probe.disk.leaderboard = File(1)
    /\ probe.disk.players = File(probe.registered_players)
    /\ probe.disk.players # probe.before.players

\* C29: a fetch_questions that returns failure after failures that can pass
\* has made all its attempts, more than one, and has waited between every
\* two of them; and after a failure start_game does not make the game
\* active.
C29_FetchRetriesWithBackoff ==
    /\ (probe.pc = "returned" /\ probe.result = "False" /\ probe.log # <<>>)
          => /\ Len(probe.log) = Retries
             /\ probe.slept = Retries - 1
    /\ (probe.pc = "idle" /\ probe.result = "False") => ~probe.is_active

\* C30: while the game is active it has questions and
\* current_question_index is the index of one of them.
C30_ActiveHasQuestionAtIndex ==
    is_active => /\ Len(questions) > 0
                 /\ current_question_index < Len(questions)

\* The step is a call of show_question: the index was just incremented, or
\* start_game comes back from its sleep.  (force_end_game sets the index to
\* 0 without showing anything.)
Presents ==
    \/ /\ current_question_index' # current_question_index
       /\ ~(update.pc = "eg_reply" /\ update.ret = "clear")
    \/ update.pc = "sleep10" /\ update'.pc # "sleep10"

\* The step takes an answer as an attempt.
AnswerEvaluated ==
    /\ answered_players' # answered_players
    /\ answered_players' # {}

\* C31: show_question with an index below len(questions) empties
\* answered_players and correct_players, makes that question the current
\* one and takes a new start time; with an index at or beyond
\* len(questions) it ends the game; and an answer is always evaluated
\* against questions[current_question_index].
C31_ShowQuestionPresentsOrEnds ==
    [][/\ (Presents /\ current_question_index' < Len(questions'))
             => /\ answered_players' = {} /\ correct_players' = {}
                /\ current_question' = questions'[current_question_index' + 1]
                /\ question_start_time' = 0
       /\ (Presents /\ current_question_index' >= Len(questions'))
             => ~is_active'
       /\ AnswerEvaluated
             => /\ current_question_index < Len(questions)
                /\ current_question = questions[current_question_index + 1]]_vars

\* The step is one of handle_answer: the press is turned away or taken, or
\* the handler goes on from one of its awaits.
AnswerStep ==
    \/ AnswerEvaluated
    \/ notice' \in {"must_join", "already_attempted", "already_correct",
                    "correct", "wrong"}
    \/ /\ update.pc # update'.pc
       /\ "handle_answer" \in {update.handler, update'.handler}

\* The tasks are the same coroutines at the same awaits, and
\* auto_advance_task refers to the same one.
SameTasks ==
    /\ Len(tasks') = Len(tasks)
    /\ \A i \in 1..Len(tasks) :
          /\ tasks'[i].coro = tasks[i].coro
          /\ tasks'[i].pc = tasks[i].pc
          /\ tasks'[i].handle = tasks[i].handle
          /\ tasks'[i].message = tasks[i].message

\* C32: in Pytrivia.py no step of handle_answer changes
\* current_question_index, current_question or is_active, and none cancels
\* or arms a timer, whoever has answered by then.
C32_AnswerNeverAdvances ==
    [][(variant = OPENTDB /\ AnswerStep)
          => /\ UNCHANGED <<current_question_index, current_question,
                            is_active>>
             /\ SameTasks]_vars

\* Pytrivia.py: the last player has just answered, everybody is correct, and
\* the timer of the question is still asleep.
C32_EverybodyCorrectTimerPending ==
    /\ variant = OPENTDB
    /\ is_active
    /\ notice = "correct"
    /\ Cardinality(DOMAIN players) = 2
    /\ correct_players = DOMAIN players
    /\ DeadlinePending
    /\ update = Idle

\* C33: whenever the game is active, so that handle_answer takes a press, a
\* question is shown: current_question and question_start_time are set, and
\* the time since the question was shown is defined and not negative.
C33_ActiveHasQuestionShown ==
    is_active => /\ current_question # NoQuestion
                 /\ question_start_time # NoTime
                 /\ question_start_time >= 0

\* The summary of the current question, with its correct answer, has been
\* sent: in Pytrivia.py show_next_question is asleep for that question.
Revealed ==
    \E i \in 1..Len(tasks) :
       /\ tasks[i].coro = "show_next_question"
       /\ tasks[i].pc = "sleep"
       /\ tasks[i].message = current_question_index

\* C34: once the summary of a question was sent, no answer to it is taken
\* or scored: until the next question is shown nobody is added to
\* answered_players and nobody's points go up.
C34_NoScoreAfterReveal ==
    [][Revealed
          => /\ ~AnswerEvaluated
             /\ \A u \in DOMAIN players \cap DOMAIN players' :
                   players'[u].points <= players[u].points]_vars

\* C35: no credit is lost between chats: what the game of a chat has folded
\* into its rankings, or found in the file when it was made, is in
\* leaderboard.json from then on, whatever the games of the other chats
\* write.
C35_NoCreditLostBetweenChats ==
    \A c \in DOMAIN probe.games :
       \A u \in DOMAIN probe.games[c].rankings :
          /\ u \in DOMAIN probe.file
          /\ probe.file[u] >= probe.games[c].rankings[u]

\* C36: a game that start_trivia has replaced does nothing any more: its
\* timer shows no question of it, moves its index no further, does not end
\* it and writes nothing to leaderboard.json.
C36_ReplacedGameDoesNothing ==
    [][\A i \in 1..Len(probe.replaced) :
          /\ i <= Len(probe'.replaced)
          /\ probe'.replaced[i] = probe.replaced[i]]_vars

\* C37: a press that handle_answer takes as an attempt was made on a button
\* of the current question: a button under the message of an earlier
\* question is never counted or scored for a later one.
C37_PressCountsForItsQuestion ==
    probe.press.taken => probe.press.origin = probe.press.against

\* How many questions of the game have been shown: none before the first
\* show_question of start_game.
QuestionsShown ==
    IF current_question = NoQuestion THEN 0
    ELSE IF update.handler = "start_game" /\ update.pc = "sleep10" THEN 0
    ELSE IF current_question_index + 1 < Len(questions)
         THEN current_question_index + 1
         ELSE Len(questions)

\* What always holds of the stats of a player during a game.
StatsBounded ==
    is_active
       => \A u \in DOMAIN players :
             /\ players[u].correct_answers <= QuestionsShown
             /\ players[u].fast_bonuses <= players[u].correct_answers
             /\ players[u].correct_answers <= players[u].points
             /\ players[u].points <= 4 * players[u].correct_answers

\* No step takes a player or anything of a player's stats away.
StatsGrow ==
    \A u \in DOMAIN players :
       /\ u \in DOMAIN players'
       /\ players'[u].points >= players[u].points
       /\ players'[u].correct_answers >= players[u].correct_answers
       /\ players'[u].fast_bonuses >= players[u].fast_bonuses

\* C38: during a game every player has at most one correct answer for every
\* question shown so far, no more speed bonuses than correct answers, and
\* between one and four points for every correct answer; and no player's
\* points, correct answers or speed bonuses ever go down.
C38_StatsBoundedAndGrowing ==
    []StatsBounded /\ [][StatsGrow]_vars

\* The step is what a command of a chat member who is no administrator
\* does.
MemberCommand ==
    \/ start_game("member")
    \/ next_game("member")
    \/ reset_scores("member")
    \/ force_end_game("member")

\* C39: no command of a member who is no administrator takes a player out
\* of the game, takes points from a player or takes anything from the
\* all-time rankings.
C39_MemberCannotDestroy ==
    [][MemberCommand => StatsGrow /\ RankingsGrow]_vars

====
